---------------------------- MODULE Spec2Model ----------------------------
(***************************************************************************)
(* A model of the Cognio memory engine (src/src/memory.py) over its SQLite *)
(* persistence layer (src/src/database.py), its vectorizer                 *)
(* (src/src/embeddings.py), the request models (src/src/models.py) and the  *)
(* mutating routes with their API key check (src/src/server.py).           *)
(*                                                                         *)
(* Representation choices:                                                 *)
(*  - a text is [body, len]: len is what len(text) returns, body names the *)
(*    content among the texts of that length;                              *)
(*  - a string that the code inspects character by character (a tag, the   *)
(*    JSON text of the tags column, a LIKE pattern) is a sequence of       *)
(*    one-character strings;                                               *)
(*  - None is the string NONE where the field otherwise holds a string,    *)
(*    and the empty sequence where it otherwise holds a list;              *)
(*  - a float score is a fixed-point integer, SCALE units to 1.0;          *)
(*  - the memories table is the sequence of its rows in rowid order.       *)
(***************************************************************************)
EXTENDS Integers, Sequences, FiniteSets, TLC

VARIABLES
    memories,         \* the rows of table memories, in rowid order
    now,              \* the wall clock, epoch seconds
    next_uuid,        \* the next fresh uuid4
    max_text_length,  \* app_config.max_text_length
    last,             \* the last engine call and what it returned
    api_key,          \* app_config.api_key
    model,            \* vectorizer.model: 0 for None, else the instance loaded
    constructed,      \* how many times SentenceTransformer(...) has run
    callers,          \* the threads inside the vectorizer and where they are
    savers            \* the threads inside add_new_memory and where they are

vars == <<memories, now, next_uuid, max_text_length, last, api_key, model,
          constructed, callers, savers>>

\* What the engine's serial calls neither read for writing nor write: the
\* configured key, the vectorizer's model and the threads.
process == <<api_key, model, constructed, callers, savers>>

NONE == "<None>"

-----------------------------------------------------------------------------
(* Bounds of the model *)

MaxIds == 2

MaxTime == 2

MaxCallers == 2

-----------------------------------------------------------------------------
(* Program constants *)

FieldMaxLength == 10000

DefaultMaxTextLength == 10000

ListFetchCap == 10000

TopTagCount == 10

ExportFetchCap == 10000

SCALE == 1000 * 1000


-----------------------------------------------------------------------------
(* utils.py (memory.py imports these as create_content_hash,                *)
(* current_timestamp_seconds and timestamp_to_iso_str)                       *)

\* hashlib.sha256(text.encode("utf-8")).hexdigest(): a digest, taken to be
\* collision-free on the modelled texts; it is a value of another type than
\* the text it digests.
generate_text_hash(text) == <<"sha256", text.body, text.len>>

\* datetime.fromtimestamp(ts).isoformat() + "Z": the rendering of the local
\* time with a literal Z appended.
format_timestamp(ts) == <<"iso", ts, "Z">>

-----------------------------------------------------------------------------
(* json.dumps / json.loads of the tags column, and SQLite's LIKE *)

RECURSIVE JsonEscape(_)
\* json.dumps of the characters of one string (ensure_ascii=True).
JsonEscape(str) ==
    IF str = <<>> THEN <<>>
    ELSE LET c == Head(str)
             e == IF c = "\"" THEN <<"\\", "\"">>
                  ELSE IF c = "\\" THEN <<"\\", "\\">>
                  ELSE IF c = "é" THEN <<"\\", "u", "0", "0", "e", "9">>
                  ELSE <<c>>
         IN  e \o JsonEscape(Tail(str))

RECURSIVE JsonJoin(_)
JsonJoin(tags) ==
    IF tags = <<>> THEN <<>>
    ELSE <<"\"">> \o JsonEscape(Head(tags)) \o <<"\"">>
         \o (IF Tail(tags) = <<>> THEN <<>> ELSE <<",", " ">>)
         \o JsonJoin(Tail(tags))

\* json.dumps(memory.tags): ["a", "b"]
json_dumps(tags) == <<"[">> \o JsonJoin(tags) \o <<"]">>

RECURSIVE JsonParse(_, _, _, _)
\* json.loads of a JSON list of strings: s is the text left, acc the strings
\* parsed, cur the string being read and inside whether a string is open.
\* Outside a string it skips to the next quote; inside it takes the run of
\* plain characters up to the next quote or backslash in one step.
JsonParse(s, acc, cur, inside) ==
    LET stops == {i \in 1..Len(s) : s[i] = "\"" \/ (inside /\ s[i] = "\\")}
        m == CHOOSE i \in stops : \A j \in stops : i <= j
        run == SubSeq(s, 1, m - 1)
        rest(n) == SubSeq(s, m + n, Len(s))
    IN  IF stops = {} THEN acc
        ELSE IF ~inside THEN JsonParse(rest(1), acc, <<>>, TRUE)
        ELSE IF s[m] = "\"" THEN JsonParse(rest(1), Append(acc, cur \o run), <<>>, FALSE)
        ELSE IF s[m + 1] = "u"
          THEN JsonParse(rest(6), acc, cur \o run \o <<"é">>, TRUE)
        ELSE JsonParse(rest(2), acc, cur \o run \o <<s[m + 1]>>, TRUE)

json_loads(s) == JsonParse(s, <<>>, <<>>, FALSE)

\* SQLite folds the case of ASCII letters in LIKE.
Fold(c) == IF c = "X" THEN "x" ELSE IF c = "Y" THEN "y" ELSE c

RECURSIVE Like(_, _)
\* str LIKE pat: % matches any run of characters, _ any one character, any
\* other character matches itself up to ASCII case; there is no escape.
Like(str, pat) ==
    IF pat = <<>> THEN str = <<>>
    ELSE IF Head(pat) = "%"
      THEN Like(str, Tail(pat)) \/ (str # <<>> /\ Like(Tail(str), pat))
    ELSE /\ str # <<>>
         /\ (Head(pat) = "_" \/ Fold(Head(pat)) = Fold(Head(str)))
         /\ Like(Tail(str), Tail(pat))

\* f'%"{tag}"%'
TagPattern(tag) == <<"%", "\"">> \o tag \o <<"\"", "%">>

-----------------------------------------------------------------------------
(* Generic list helpers *)

RECURSIVE InsertDesc(_, _)
\* The pair x = <<key, item>> put before the first pair whose key is not
\* greater than x's.
InsertDesc(x, sorted) ==
    IF sorted = <<>> THEN <<x>>
    ELSE IF Head(sorted)[1] > x[1]
      THEN <<Head(sorted)>> \o InsertDesc(x, Tail(sorted))
    ELSE <<x>> \o sorted

RECURSIVE SortDesc(_)
\* list.sort(key=lambda x: x[1], reverse=True) on <<key, item>> pairs: by key
\* descending and stable (pairs with equal keys keep their order).
SortDesc(pairs) ==
    IF pairs = <<>> THEN <<>>
    ELSE InsertDesc(Head(pairs), SortDesc(Tail(pairs)))

\* list[lo : lo + n] of Python, LIMIT n OFFSET lo of SQL (0-based lo).
Slice(list, lo, n) ==
    IF lo >= Len(list) \/ n <= 0 THEN <<>>
    ELSE SubSeq(list, lo + 1, IF lo + n > Len(list) THEN Len(list) ELSE lo + n)

Range(seq) == {seq[i] : i \in 1..Len(seq)}


-----------------------------------------------------------------------------
(* embeddings.py *)

\* self.model.encode(text).tolist(): the sentence-transformer, a fixed map
\* from a text to its vector (the same text always yields the same vector).
generate_embedding(text) ==
    CASE text.body = "A" -> <<1, 0>>
      [] text.body = "B" -> <<0, 1>>
      [] text.body = "C" -> <<-1, 0>>
      [] text.body = "D" -> <<3, 4>>
      [] OTHER -> <<0, 0>>

Dot(v, w) == v[1] * w[1] + v[2] * w[2]

\* np.linalg.norm, exact on the modelled vectors (their norms are integers).
Norm(v) == CHOOSE n \in 0..(Dot(v, v)) : n * n = Dot(v, v)

\* dot / (norm1 * norm2), 0.0 when a norm is 0; in units of 1/SCALE.
calculate_cosine_similarity(emb1, emb2) ==
    IF Norm(emb1) = 0 \/ Norm(emb2) = 0 THEN 0
    ELSE (Dot(emb1, emb2) * SCALE) \div (Norm(emb1) * Norm(emb2))

\* round(score, 4): to the nearest 1/10000, ties to even.
Round4(score) ==
    LET q == score \div 100
        r == score % 100
    IN  IF r > 50 \/ (r = 50 /\ q % 2 = 1) THEN (q + 1) * 100 ELSE q * 100

-----------------------------------------------------------------------------
(* database.py: each operator takes the table's rows and returns what the *)
(* statement returns, or the rows after it                                 *)

\* _map_row_to_memory_object
map_row_to_memory_object(row) ==
    [id |-> row.id, text |-> row.text, text_hash |-> row.text_hash,
     embedding |-> IF row.embedding # <<>> THEN row.embedding[2] ELSE <<>>,
     project |-> row.project,
     tags |-> IF row.tags # <<>> THEN json_loads(row.tags) ELSE <<>>,
     created_at |-> row.created_at, updated_at |-> row.updated_at]

MapRows(rows) == [i \in 1..Len(rows) |-> map_row_to_memory_object(rows[i])]

\* Mutant: the INSERT binds the digest of another text to text_hash.
persist_memory_record_WrongHash(rows, memory) ==
    Append(rows,
        [id |-> memory.id, text |-> memory.text,
         text_hash |-> <<"sha256", memory.text.body, memory.text.len + 1>>,
         embedding |-> IF memory.embedding # <<>>
                         THEN <<"json", memory.embedding>> ELSE <<>>,
         project |-> memory.project, tags |-> json_dumps(memory.tags),
         created_at |-> memory.created_at, updated_at |-> memory.updated_at,
         archived |-> 0])

\* INSERT INTO memories (...): the embedding as a JSON blob (NULL for an empty
\* or absent one), the tags as JSON text, archived by its DEFAULT 0.
persist_memory_record(rows, memory) ==
    Append(rows,
        [id |-> memory.id, text |-> memory.text, text_hash |-> memory.text_hash,
         embedding |-> IF memory.embedding # <<>>
                         THEN <<"json", memory.embedding>> ELSE <<>>,
         project |-> memory.project, tags |-> json_dumps(memory.tags),
         created_at |-> memory.created_at, updated_at |-> memory.updated_at,
         archived |-> 0])

\* SELECT * FROM memories WHERE id = ?; fetchone(): <<record>> or <<>>.
fetch_memory_by_uuid(rows, memory_id) ==
    LET hit == SelectSeq(rows, LAMBDA r : r.id = memory_id)
    IN  IF hit = <<>> THEN <<>> ELSE <<map_row_to_memory_object(hit[1])>>

\* Mutant: the lookup compares the hash with the id column and finds nothing.
fetch_memory_by_content_hash_WrongColumn(rows, text_hash) ==
    LET hit == SelectSeq(rows, LAMBDA r : r.id = 0 /\ r.archived = 0)
    IN  IF hit = <<>> THEN <<>> ELSE <<map_row_to_memory_object(hit[1])>>

\* Mutant: the lookup reads the archived rows instead of the active ones.
fetch_memory_by_content_hash_Archived(rows, text_hash) ==
    LET hit == SelectSeq(rows, LAMBDA r : r.text_hash = text_hash /\ r.archived = 1)
    IN  IF hit = <<>> THEN <<>> ELSE <<map_row_to_memory_object(hit[1])>>

\* Mutant: the lookup has no "AND archived = 0".
fetch_memory_by_content_hash_AnyState(rows, text_hash) ==
    LET hit == SelectSeq(rows, LAMBDA r : r.text_hash = text_hash)
    IN  IF hit = <<>> THEN <<>> ELSE <<map_row_to_memory_object(hit[1])>>

\* SELECT * FROM memories WHERE text_hash = ? AND archived = 0; fetchone().
fetch_memory_by_content_hash(rows, text_hash) ==
    LET hit == SelectSeq(rows, LAMBDA r : r.text_hash = text_hash /\ r.archived = 0)
    IN  IF hit = <<>> THEN <<>> ELSE <<map_row_to_memory_object(hit[1])>>

\* " AND project = ?" when project is truthy.
ProjectClause(row, project) ==
    (project # NONE /\ project # "") => row.project = project

\* " AND (tags LIKE ? OR ...)" when tags is truthy.
TagsClause(row, tags) ==
    tags # <<>> => \E i \in 1..Len(tags) : Like(row.tags, TagPattern(tags[i]))

\* ORDER BY created_at DESC (rows of equal created_at in rowid order).
OrderByCreatedDesc(rows) ==
    LET sorted == SortDesc([i \in 1..Len(rows) |-> <<rows[i].created_at, rows[i]>>])
    IN  [i \in 1..Len(sorted) |-> sorted[i][2]]

\* The WHERE clause of retrieve_paginated_memories and count_total_memories.
ListWhere(rows, project, tags) ==
    SelectSeq(rows, LAMBDA r : /\ r.archived = 0
                               /\ ProjectClause(r, project)
                               /\ TagsClause(r, tags))

retrieve_paginated_memories(rows, project, tags, limit, offset) ==
    MapRows(Slice(OrderByCreatedDesc(ListWhere(rows, project, tags)), offset, limit))

count_total_memories(rows, project, tags) == Len(ListWhere(rows, project, tags))

\* DELETE FROM memories WHERE id = ?
hard_delete_memory(rows, memory_id) ==
    LET kept == SelectSeq(rows, LAMBDA r : r.id # memory_id)
    IN  [rows |-> kept, ret |-> (Len(rows) - Len(kept)) > 0]

\* Mutant: the UPDATE has no "AND archived = 0".
soft_delete_memory_AnyState(rows, memory_id) ==
    LET hits == {i \in 1..Len(rows) : rows[i].id = memory_id}
    IN  [rows |-> [i \in 1..Len(rows) |->
                     IF i \in hits THEN [rows[i] EXCEPT !.archived = 1] ELSE rows[i]],
         ret |-> Cardinality(hits) > 0]

\* Mutant: the UPDATE flips the archived flag of the record, whatever it was.
soft_delete_memory_Toggle(rows, memory_id) ==
    LET hits == {i \in 1..Len(rows) : rows[i].id = memory_id}
    IN  [rows |-> [i \in 1..Len(rows) |->
                     IF i \in hits THEN [rows[i] EXCEPT !.archived = 1 - @] ELSE rows[i]],
         ret |-> Cardinality(hits) > 0]

\* UPDATE memories SET archived = 1 WHERE id = ? AND archived = 0
soft_delete_memory(rows, memory_id) ==
    LET hits == {i \in 1..Len(rows) : rows[i].id = memory_id /\ rows[i].archived = 0}
    IN  [rows |-> [i \in 1..Len(rows) |->
                     IF i \in hits THEN [rows[i] EXCEPT !.archived = 1] ELSE rows[i]],
         ret |-> Cardinality(hits) > 0]

\* DELETE FROM memories WHERE 1=1 [AND project = ?] [AND created_at < ?]:
\* before_timestamp is <<>> for None and <<c>> otherwise; each clause is added
\* when its argument is truthy.
hard_bulk_delete(rows, project, before_timestamp) ==
    LET doomed(r) ==
            /\ ProjectClause(r, project)
            /\ (before_timestamp # <<>> /\ before_timestamp[1] # 0)
                  => r.created_at < before_timestamp[1]
        kept == SelectSeq(rows, LAMBDA r : ~doomed(r))
    IN  [rows |-> kept, ret |-> Len(rows) - Len(kept)]

\* Mutant: the scan for semantic search forgets the archived flag.
fetch_all_active_memories_WithArchived(rows) ==
    MapRows(OrderByCreatedDesc(rows))

\* SELECT * FROM memories WHERE archived = 0 ORDER BY created_at DESC
fetch_all_active_memories(rows) ==
    MapRows(OrderByCreatedDesc(SelectSeq(rows, LAMBDA r : r.archived = 0)))


RECURSIVE Flatten(_)
Flatten(lists) == IF lists = <<>> THEN <<>> ELSE Head(lists) \o Flatten(Tail(lists))

RECURSIVE FirstOccurrences(_, _)
\* The distinct elements of list in the order of their first occurrence: the
\* key order of the dict that tag_frequencies is.
FirstOccurrences(list, seen) ==
    IF list = <<>> THEN <<>>
    ELSE IF Head(list) \in seen THEN FirstOccurrences(Tail(list), seen)
    ELSE <<Head(list)>> \o FirstOccurrences(Tail(list), seen \cup {Head(list)})

\* Mutant: the tag scan reads the archived rows too.
collect_database_statistics_AllTags(rows) ==
    LET active == SelectSeq(rows, LAMBDA r : r.archived = 0)
        projects == {active[i].project : i \in 1..Len(active)} \ {NONE}
        by_project == [p \in projects |->
                          Cardinality({i \in 1..Len(active) : active[i].project = p})]
        occurrences == Flatten([i \in 1..Len(rows) |-> json_loads(rows[i].tags)])
        keys == FirstOccurrences(occurrences, {})
        freq(t) == Cardinality({i \in 1..Len(occurrences) : occurrences[i] = t})
        ranked == SortDesc([i \in 1..Len(keys) |-> <<freq(keys[i]), keys[i]>>])
        top == Slice(ranked, 0, TopTagCount)
    IN  [total_memories |-> count_total_memories(rows, NONE, <<>>),
         total_projects |-> Cardinality(projects),
         by_project |-> by_project,
         top_tags |-> [i \in 1..Len(top) |-> top[i][2]]]

\* collect_database_statistics, but for storage_mb (the size of the file).
collect_database_statistics(rows) ==
    LET active == SelectSeq(rows, LAMBDA r : r.archived = 0)
        projects == {active[i].project : i \in 1..Len(active)} \ {NONE}
        by_project == [p \in projects |->
                          Cardinality({i \in 1..Len(active) : active[i].project = p})]
        occurrences == Flatten([i \in 1..Len(active) |-> json_loads(active[i].tags)])
        keys == FirstOccurrences(occurrences, {})
        freq(t) == Cardinality({i \in 1..Len(occurrences) : occurrences[i] = t})
        ranked == SortDesc([i \in 1..Len(keys) |-> <<freq(keys[i]), keys[i]>>])
        top == Slice(ranked, 0, TopTagCount)
    IN  [total_memories |-> count_total_memories(rows, NONE, <<>>),
         total_projects |-> Cardinality(projects),
         by_project |-> by_project,
         top_tags |-> [i \in 1..Len(top) |-> top[i][2]]]

-----------------------------------------------------------------------------
(* memory.py: the engine's read operations as functions of the table *)

\* datetime.fromisoformat(s.replace("Z", "+00:00")).timestamp() truncated to
\* int: <<epoch second>>, or <<>> when fromisoformat raises ValueError.
ParseIso(s) ==
    CASE s = "1970-01-01T00:00:00Z" -> <<0>>
      [] s = "1970-01-01T00:00:01Z" -> <<1>>
      [] s = "1970-01-01T00:00:02Z" -> <<2>>
      [] s = "1970-01-01T00:00:03Z" -> <<3>>
      [] s = "1970-01-01T00:00:04Z" -> <<4>>
      [] OTHER -> <<>>

\* Python's truth value of an optional string.
Truthy(s) == s # NONE /\ s # ""

RetrievedMemory(memory, score) ==
    [id |-> memory.id, text |-> memory.text, score |-> score,
     project |-> memory.project, tags |-> memory.tags,
     created_at |-> format_timestamp(memory.created_at)]

\* The records find_relevant_memories scores: the active ones that pass the
\* project, tags and date filters.
SearchCandidates(rows, project, tags, after_date, before_date) ==
    LET all == fetch_all_active_memories(rows)
        byProject == IF Truthy(project)
                       THEN SelectSeq(all, LAMBDA m : m.project = project) ELSE all
        byTags == IF tags # <<>>
                    THEN SelectSeq(byProject,
                           LAMBDA m : \E i \in 1..Len(tags) : tags[i] \in Range(m.tags))
                    ELSE byProject
        after == IF Truthy(after_date) THEN ParseIso(after_date) ELSE <<>>
        byAfter == IF after # <<>>
                     THEN SelectSeq(byTags, LAMBDA m : m.created_at >= after[1])
                     ELSE byTags
        before == IF Truthy(before_date) THEN ParseIso(before_date) ELSE <<>>
    IN  IF before # <<>>
          THEN SelectSeq(byAfter, LAMBDA m : m.created_at <= before[1])
          ELSE byAfter

\* The <<score, record>> pairs of the records with an embedding.
Scored(records, query_embedding) ==
    LET embedded == SelectSeq(records, LAMBDA m : m.embedding # <<>>)
    IN  [i \in 1..Len(embedded) |->
            <<calculate_cosine_similarity(query_embedding, embedded[i].embedding),
              embedded[i]>>]

ToResults(pairs) ==
    [i \in 1..Len(pairs) |-> RetrievedMemory(pairs[i][2], <<Round4(pairs[i][1])>>)]

\* Mutant: the scored records are cut to the limit before they are sorted.
find_relevant_memories_CutFirst(rows, query, project, tags, limit, threshold, after_date, before_date) ==
    LET candidates == SearchCandidates(rows, project, tags, after_date, before_date)
        scored == SelectSeq(Scored(candidates, generate_embedding(query)),
                            LAMBDA x : x[1] >= threshold)
    IN  ToResults(SortDesc(Slice(scored, 0, limit)))

\* Mutant: the scored records are not compared with the threshold.
find_relevant_memories_NoThreshold(rows, query, project, tags, limit, threshold, after_date, before_date) ==
    LET candidates == SearchCandidates(rows, project, tags, after_date, before_date)
        scored == Scored(candidates, generate_embedding(query))
    IN  ToResults(Slice(SortDesc(scored), 0, limit))

find_relevant_memories(rows, query, project, tags, limit, threshold, after_date, before_date) ==
    LET candidates == SearchCandidates(rows, project, tags, after_date, before_date)
        scored == SelectSeq(Scored(candidates, generate_embedding(query)),
                            LAMBDA x : x[1] >= threshold)
    IN  ToResults(Slice(SortDesc(scored), 0, limit))

\* Mutant: the relevance listing pages the scored records without sorting them.
get_all_memories_paginated_Unsorted(rows, project, tags, page, limit, sort, search_query) ==
    LET page_offset == (page - 1) * limit
    IN  IF sort = "relevance" /\ search_query # <<>> /\ search_query[1].len > 0
          THEN LET all_records ==
                       retrieve_paginated_memories(rows, project, tags, ListFetchCap, 0)
                   ranked == Scored(all_records, generate_embedding(search_query[1]))
               IN  [memories |-> ToResults(Slice(ranked, page_offset, limit)),
                    total |-> Len(all_records)]
          ELSE LET memory_records ==
                       retrieve_paginated_memories(rows, project, tags, limit, page_offset)
               IN  [memories |-> [i \in 1..Len(memory_records) |->
                                     RetrievedMemory(memory_records[i], <<>>)],
                    total |-> count_total_memories(rows, project, tags)]

\* Mutant: the relevance branch is taken whenever sort is "relevance"; without
\* a query it scores nothing and returns no record.
get_all_memories_paginated_NoFallback(rows, project, tags, page, limit, sort, search_query) ==
    LET page_offset == (page - 1) * limit
    IN  IF sort = "relevance"
          THEN LET all_records ==
                       retrieve_paginated_memories(rows, project, tags, ListFetchCap, 0)
                   ranked == IF search_query # <<>> /\ search_query[1].len > 0
                               THEN SortDesc(Scored(all_records,
                                                    generate_embedding(search_query[1])))
                               ELSE <<>>
               IN  [memories |-> ToResults(Slice(ranked, page_offset, limit)),
                    total |-> Len(all_records)]
          ELSE LET memory_records ==
                       retrieve_paginated_memories(rows, project, tags, limit, page_offset)
               IN  [memories |-> [i \in 1..Len(memory_records) |->
                                     RetrievedMemory(memory_records[i], <<>>)],
                    total |-> count_total_memories(rows, project, tags)]

\* search_query is <<>> when absent and <<text>> otherwise; a score is <<>>
\* for score=None and <<score>> otherwise.
get_all_memories_paginated(rows, project, tags, page, limit, sort, search_query) ==
    LET page_offset == (page - 1) * limit
    IN  IF sort = "relevance" /\ search_query # <<>> /\ search_query[1].len > 0
          THEN LET all_records ==
                       retrieve_paginated_memories(rows, project, tags, ListFetchCap, 0)
                   ranked == SortDesc(Scored(all_records, generate_embedding(search_query[1])))
               IN  [memories |-> ToResults(Slice(ranked, page_offset, limit)),
                    total |-> Len(all_records)]
          ELSE LET memory_records ==
                       retrieve_paginated_memories(rows, project, tags, limit, page_offset)
               IN  [memories |-> [i \in 1..Len(memory_records) |->
                                     RetrievedMemory(memory_records[i], <<>>)],
                    total |-> count_total_memories(rows, project, tags)]


RECURSIVE JoinComma(_)
\* ", ".join(tags)
JoinComma(tags) ==
    IF tags = <<>> THEN <<>>
    ELSE Head(tags) \o (IF Tail(tags) = <<>> THEN <<>> ELSE <<",", " ">>)
         \o JoinComma(Tail(tags))

\* The six lines the markdown export writes for one record.
MarkdownLines(m) ==
    << <<"## ", m.id>>,
       <<"**Project**: ", IF Truthy(m.project) THEN m.project ELSE "None">>,
       <<"**Tags**: ", IF m.tags # <<>> THEN JoinComma(m.tags)
                                        ELSE <<"N", "o", "n", "e">> >>,
       <<"**Created**: ", format_timestamp(m.created_at)>>,
       <<"text", m.text>>,
       <<"---">> >>

\* Mutant: the export reads the table without the project filter.
dump_memories_to_format_NoProject(rows, format, project) ==
    LET all_memories == retrieve_paginated_memories(rows, NONE, <<>>, ExportFetchCap, 0)
    IN  IF format = "json"
          THEN [memories |-> [i \in 1..Len(all_memories) |->
                   [id |-> all_memories[i].id, text |-> all_memories[i].text,
                    project |-> all_memories[i].project, tags |-> all_memories[i].tags,
                    created_at |-> format_timestamp(all_memories[i].created_at)]]]
          ELSE [markdown |-> <<<<"# Memory Export">>>>
                   \o Flatten([i \in 1..Len(all_memories) |-> MarkdownLines(all_memories[i])])]

\* dump_memories_to_format for the formats it supports (the caller raises
\* ValueError for any other).
dump_memories_to_format(rows, format, project) ==
    LET all_memories == retrieve_paginated_memories(rows, project, <<>>, ExportFetchCap, 0)
    IN  IF format = "json"
          THEN [memories |-> [i \in 1..Len(all_memories) |->
                   [id |-> all_memories[i].id, text |-> all_memories[i].text,
                    project |-> all_memories[i].project, tags |-> all_memories[i].tags,
                    created_at |-> format_timestamp(all_memories[i].created_at)]]]
          ELSE [markdown |-> <<<<"# Memory Export">>>>
                   \o Flatten([i \in 1..Len(all_memories) |-> MarkdownLines(all_memories[i])])]

-----------------------------------------------------------------------------
(* The engine's calls.  last records the call: op, args, error ("none" when  *)
(* it returned), ret (what it returned, <<>> when it raised) and embedded    *)
(* (whether the call invoked the vectorizer).                                *)

Call(op, args, error, ret, embedded) ==
    [op |-> op, args |-> args, error |-> error, ret |-> ret, embedded |-> embedded]

\* StoreMemoryInput(text=..., project=..., tags=...): pydantic rejects a text
\* longer than the field's max_length.
StoreMemoryInputValid(text) == text.len <= FieldMaxLength

\* CognitiveStore.add_new_memory on a StoreMemoryInput built from the arguments.
SaveMemory(text, project, tags) ==
    LET args == [text |-> text, project |-> project, tags |-> tags]
        content_hash == generate_text_hash(text)
        existing_record == fetch_memory_by_content_hash(memories, content_hash)
        memory_dto == [id |-> next_uuid, text |-> text, text_hash |-> content_hash,
                       embedding |-> generate_embedding(text),
                       project |-> project, tags |-> tags,
                       created_at |-> now, updated_at |-> now]
    IN  IF ~StoreMemoryInputValid(text)
          THEN /\ last' = Call("save", args, "RequestValidationError", <<>>, FALSE)
               /\ UNCHANGED <<memories, now, next_uuid, max_text_length, process>>
        ELSE IF text.len > max_text_length
          THEN /\ last' = Call("save", args, "ValueError", <<>>, FALSE)
               /\ UNCHANGED <<memories, now, next_uuid, max_text_length, process>>
        ELSE IF existing_record # <<>>
          THEN /\ last' = Call("save", args, "none",
                               [id |-> existing_record[1].id, duplicate |-> TRUE,
                                reason |-> "duplicate"], FALSE)
               /\ UNCHANGED <<memories, now, next_uuid, max_text_length, process>>
        ELSE /\ next_uuid <= MaxIds
             /\ memories' = persist_memory_record(memories, memory_dto)
             /\ next_uuid' = next_uuid + 1
             /\ last' = Call("save", args, "none",
                             [id |-> next_uuid, duplicate |-> FALSE,
                              reason |-> "created"], TRUE)
             /\ UNCHANGED <<now, max_text_length, process>>

\* handle_archive_memory: db_layer.soft_delete_memory(memory_id)
ArchiveMemory(memory_id) ==
    LET done == soft_delete_memory(memories, memory_id)
    IN  /\ memories' = done.rows
        /\ last' = Call("archive", [id |-> memory_id], "none", [archived |-> done.ret], FALSE)
        /\ UNCHANGED <<now, next_uuid, max_text_length, process>>

\* CognitiveStore.remove_memory_by_id
DeleteMemory(memory_id) ==
    LET done == hard_delete_memory(memories, memory_id)
    IN  /\ memories' = done.rows
        /\ last' = Call("delete", [id |-> memory_id], "none", [deleted |-> done.ret], FALSE)
        /\ UNCHANGED <<now, next_uuid, max_text_length, process>>

\* CognitiveStore.remove_memories_in_bulk
BulkDelete(project, before_date) ==
    LET args == [project |-> project, before_date |-> before_date]
        parsed == IF Truthy(before_date) THEN ParseIso(before_date) ELSE <<>>
        done == hard_bulk_delete(memories, project, parsed)
    IN  IF Truthy(before_date) /\ parsed = <<>>
          THEN /\ last' = Call("bulk_delete", args, "ValueError", <<>>, FALSE)
               /\ UNCHANGED <<memories, now, next_uuid, max_text_length, process>>
          ELSE /\ memories' = done.rows
               /\ last' = Call("bulk_delete", args, "none", [deleted_count |-> done.ret], FALSE)
               /\ UNCHANGED <<now, next_uuid, max_text_length, process>>

\* CognitiveStore.find_relevant_memories
SearchMemory(query, project, tags, limit, threshold, after_date, before_date) ==
    /\ last' = Call("search",
                    [query |-> query, project |-> project, tags |-> tags,
                     limit |-> limit, threshold |-> threshold,
                     after_date |-> after_date, before_date |-> before_date],
                    "none",
                    [results |->
                        find_relevant_memories(memories, query, project, tags, limit,
                                               threshold, after_date, before_date)],
                    TRUE)
    /\ UNCHANGED <<memories, now, next_uuid, max_text_length, process>>

\* CognitiveStore.get_all_memories_paginated
ListMemories(project, tags, page, limit, sort, search_query) ==
    /\ last' = Call("list",
                    [project |-> project, tags |-> tags, page |-> page,
                     limit |-> limit, sort |-> sort, search_query |-> search_query],
                    "none",
                    get_all_memories_paginated(memories, project, tags, page, limit,
                                               sort, search_query),
                    sort = "relevance" /\ search_query # <<>> /\ search_query[1].len > 0)
    /\ UNCHANGED <<memories, now, next_uuid, max_text_length, process>>

\* CognitiveStore.fetch_service_analytics
Stats ==
    /\ last' = Call("stats", <<>>, "none", collect_database_statistics(memories), FALSE)
    /\ UNCHANGED <<memories, now, next_uuid, max_text_length, process>>

\* CognitiveStore.dump_memories_to_format
Export(format, project) ==
    LET args == [format |-> format, project |-> project]
    IN  /\ last' = IF format \in {"json", "markdown"}
                     THEN Call("export", args, "none",
                               dump_memories_to_format(memories, format, project), FALSE)
                     ELSE Call("export", args, "ValueError", <<>>, FALSE)
        /\ UNCHANGED <<memories, now, next_uuid, max_text_length, process>>

\* The wall clock advances between calls.
Tick ==
    /\ now < MaxTime
    /\ now' = now + 1
    /\ UNCHANGED <<memories, next_uuid, max_text_length, last, process>>


-----------------------------------------------------------------------------
(* The inputs the calls are made with *)

Text(body, len) == [body |-> body, len |-> len]

TextA == Text("A", 1)

TextB == Text("B", 1)

TextC == Text("C", 1)

TextD == Text("D", 1)

TagX == <<"x">>

TagY == <<"y">>

TagUpperX == <<"X">>

Ids == 1..MaxIds

\* The threads that may be inside the vectorizer.
Callers == 1..MaxCallers

\* A thread that is not in a vectorizer call: op is the method it runs, pc its
\* position in it, built the instance its constructor call returned and used
\* the instance it encoded with (0 for none).
IdleCaller == [op |-> "none", pc |-> "idle", built |-> 0, used |-> 0]

\* A thread that is not in add_new_memory: pc is its position in it, request
\* the StoreMemoryInput it was called with, existing what its duplicate
\* lookup returned, dto the MemoryRecord it built and ret what it returned.
IdleSaver == [pc |-> "idle", request |-> <<>>, existing |-> <<>>, dto |-> <<>>, ret |-> <<>>]

\* The process once app_lifespan_manager has run its startup: an empty table,
\* the default api_key (None) and the model loaded by the one call of
\* initialize_transformer that startup makes.
InitWith(lengths) ==
    /\ memories = <<>>
    /\ now = 1
    /\ next_uuid = 1
    /\ max_text_length \in lengths
    /\ last = Call("init", <<>>, "none", <<>>, FALSE)
    /\ api_key = NONE
    /\ model = 1
    /\ constructed = 1
    /\ callers = [c \in Callers |-> IdleCaller]
    /\ savers = [c \in Callers |-> IdleSaver]

DoArchive == \E i \in Ids : ArchiveMemory(i)

DoDelete == \E i \in Ids : DeleteMemory(i)

-----------------------------------------------------------------------------
(* Spec: the engine's writes under serial calls, each call running to     *)
(* completion before the next starts                                       *)

Texts == {TextA, TextB}

Projects == {NONE, "p1"}

SaveTagLists == {<<>>, <<TagX>>}

BulkDates == {NONE, "", "not-a-date", "1970-01-01T00:00:00Z", "1970-01-01T00:00:02Z"}

Init == InitWith({DefaultMaxTextLength})

DoSave == \E t \in Texts, p \in Projects, g \in SaveTagLists : SaveMemory(t, p, g)

DoBulkDelete == \E p \in Projects, d \in BulkDates : BulkDelete(p, d)

Next == Tick \/ DoSave \/ DoArchive \/ DoDelete \/ DoBulkDelete

Spec == Init /\ [][Next]_vars

-----------------------------------------------------------------------------
(* Claims checked under Spec *)

ActiveIdx(rows) == {i \in 1..Len(rows) : rows[i].archived = 0}

\* C1: when a non-archived record holds text T, a SaveMemory(T, p', tags') for
\* any project and tags returns (that record's id, true, "duplicate"), leaves
\* the table (every row, so the record's project, tags, embedding and
\* created_at) as it was, adds no row and does not invoke the vectorizer.
C1_DuplicateSave ==
    [][\A t \in Texts, p \in Projects, g \in SaveTagLists :
          (SaveMemory(t, p, g)
             /\ \E i \in ActiveIdx(memories) : memories[i].text = t)
          => /\ \A i \in ActiveIdx(memories) :
                  memories[i].text = t =>
                      last'.ret = [id |-> memories[i].id, duplicate |-> TRUE,
                                   reason |-> "duplicate"]
             /\ last'.error = "none"
             /\ ~last'.embedded
             /\ memories' = memories
             /\ next_uuid' = next_uuid]_vars

\* C1 witness: a save answered "duplicate" whose project and tags both differ
\* from those of the record it names.
C1_Witness ==
    /\ last.op = "save"
    /\ last.error = "none"
    /\ last.ret.duplicate
    /\ \E i \in ActiveIdx(memories) :
          /\ memories[i].id = last.ret.id
          /\ memories[i].project # last.args.project
          /\ memories[i].tags # json_dumps(last.args.tags)

\* C2: no two non-archived records have the same text_hash.
C2_UniqueActiveHash ==
    \A i, j \in ActiveIdx(memories) :
        memories[i].text_hash = memories[j].text_hash => i = j

\* C2 witness: the same text_hash twice in the table, once archived and once
\* active, right after the save that created the active one.
C2_Witness ==
    /\ \E i, j \in 1..Len(memories) :
          /\ memories[i].text_hash = memories[j].text_hash
          /\ memories[i].archived = 1
          /\ memories[j].archived = 0
    /\ last.op = "save"
    /\ last.error = "none"
    /\ ~last.ret.duplicate

\* The parseable dates among the modelled ones.
ParseableDates == {d \in BulkDates : d # NONE /\ ParseIso(d) # <<>>}

\* The modelled date strings that fromisoformat does not parse.
UnparseableDates == {d \in BulkDates : d # NONE /\ ParseIso(d) = <<>>}

\* C7: BulkDelete with no project and a parseable before_date of epoch second
\* c (0 included) removes exactly the records with created_at < c, archived
\* or not, keeps the others and returns the number removed.
C7_BulkDeleteBefore ==
    [][\A d \in ParseableDates :
          BulkDelete(NONE, d)
          => LET c == ParseIso(d)[1]
                 kept == SelectSeq(memories, LAMBDA r : r.created_at >= c)
             IN  /\ memories' = kept
                 /\ last'.error = "none"
                 /\ last'.ret = [deleted_count |-> Len(memories) - Len(kept)]]_vars

\* C8: BulkDelete with a before_date that is not ISO-8601, with or without a
\* project, fails with a validation error and leaves the table as it was.
\* (Stated for the calls made on a table that holds records.)
C8_BulkDeleteBadDate ==
    [][\A p \in Projects, d \in UnparseableDates :
          (BulkDelete(p, d) /\ memories # <<>>)
          => /\ last'.error = "ValueError"
             /\ memories' = memories]_vars

-----------------------------------------------------------------------------
(* SpecLength: saves of texts around the length limits, for each configured *)
(* max_text_length around the request model's own limit                      *)

ConfiguredLengths == {FieldMaxLength - 1, FieldMaxLength, FieldMaxLength + 1}

LengthTexts ==
    {Text("A", n) : n \in {FieldMaxLength - 1, FieldMaxLength,
                           FieldMaxLength + 1, FieldMaxLength + 2}}
    \cup {TextB}

InitLength == InitWith(ConfiguredLengths)

LengthSave == \E t \in LengthTexts, p \in Projects : SaveMemory(t, p, <<>>)

NextLength == Tick \/ LengthSave \/ DoArchive \/ DoDelete

SpecLength == InitLength /\ [][NextLength]_vars

\* C4: for every configured max_text_length L, a SaveMemory of a text longer
\* than L fails with a validation error and leaves the table as it was, and a
\* SaveMemory of a text of length exactly L succeeds (created or duplicate).
C4_TextLengthLimit ==
    [][\A t \in LengthTexts, p \in Projects :
          SaveMemory(t, p, <<>>)
          => /\ t.len > max_text_length
                  => /\ last'.error \in {"ValueError", "RequestValidationError"}
                     /\ memories' = memories
             /\ t.len = max_text_length
                  => /\ last'.error = "none"
                     /\ last'.ret.reason \in {"created", "duplicate"}]_vars


-----------------------------------------------------------------------------
(* SpecQuery: searches and listings between saves, archives and deletes    *)

\* The saves made: <<text, project, tags>>.
QuerySaves ==
    {<<TextA, "p1", <<TagX>>>>, <<TextB, "p1", <<TagY>>>>,
     <<TextC, NONE, <<TagX>>>>, <<TextD, NONE, <<>>>>}

QueryTexts == {TextA, TextD}

QueryProjects == {NONE, "p1"}

Thresholds == {0, SCALE \div 2}

\* The listings made: <<project, tags, sort, search_query>>.
ListModes ==
    {<<p, g, "date", <<>>>> : p \in QueryProjects, g \in {<<>>, <<TagX>>, <<TagUpperX>>}}
    \cup {<<NONE, <<>>, "relevance", <<TextA>>>>, <<"p1", <<TagX>>, "relevance", <<TextA>>>>,
          <<NONE, <<>>, "relevance", <<TextD>>>>}

default_search_limit == 5

QuerySave == \E s \in QuerySaves : SaveMemory(s[1], s[2], s[3])

QuerySearch ==
    \E q \in QueryTexts, p \in QueryProjects, g \in {<<>>, <<TagX>>}, t \in Thresholds :
        SearchMemory(q, p, g, default_search_limit, t, NONE, NONE)

QueryList ==
    \E m \in ListModes, pg \in {1, 2}, l \in {1, 2} :
        ListMemories(m[1], m[2], pg, l, m[3], m[4])

NextQuery ==
    Tick \/ QuerySave \/ DoArchive \/ DoDelete \/ QuerySearch \/ QueryList \/ Stats

SpecQuery == Init /\ [][NextQuery]_vars

-----------------------------------------------------------------------------
(* Claims checked under SpecQuery *)

\* The row of the table with this id.
RowOf(id) == memories[CHOOSE i \in 1..Len(memories) : memories[i].id = id]

HasRow(id) == \E i \in 1..Len(memories) : memories[i].id = id

\* The ids of a list of results, as a sequence and as a set.
IdsOf(results) == [k \in 1..Len(results) |-> results[k].id]

IdSet(results) == {results[k].id : k \in 1..Len(results)}

\* The rows that are not archived.
ActiveRows(rows) == SelectSeq(rows, LAMBDA r : r.archived = 0)

\* A record matches a project/tags filter when its project equals the one
\* asked for (if any) and its tag collection holds one of the tags asked for
\* (if any) as an element.
MatchesFilter(row, project, tags) ==
    /\ project # NONE => row.project = project
    /\ tags # <<>> => \E k \in 1..Len(tags) : tags[k] \in Range(json_loads(row.tags))

\* The cosine similarity of a row's embedding to the embedding of a text.
SimilarityTo(text, row) ==
    calculate_cosine_similarity(generate_embedding(text), row.embedding[2])

\* C3: an archived record is in no result of ListMemories (either sort) or
\* SearchMemory and is not counted by count or Stats, for any parameters: each
\* answers as it does on the table without the archived rows; getById still
\* returns the record, and a hard delete of it removes it and returns true.
C3_ArchivedHidden ==
    \A i \in 1..Len(memories) :
        memories[i].archived = 1 =>
            LET id == memories[i].id
                active == ActiveRows(memories)
                gone == hard_delete_memory(memories, id)
                a == last.args
            IN  /\ last.op = "search" =>
                      /\ id \notin IdSet(last.ret.results)
                      /\ last.ret.results
                            = find_relevant_memories(active, a.query, a.project, a.tags,
                                  a.limit, a.threshold, a.after_date, a.before_date)
                /\ last.op = "list" =>
                      /\ id \notin IdSet(last.ret.memories)
                      /\ last.ret
                            = get_all_memories_paginated(active, a.project, a.tags,
                                  a.page, a.limit, a.sort, a.search_query)
                /\ last.op = "stats" =>
                      /\ last.ret = collect_database_statistics(active)
                      /\ last.ret.total_memories = Len(active)
                /\ \A p \in QueryProjects, g \in {<<>>, <<TagX>>, <<TagUpperX>>} :
                      count_total_memories(memories, p, g)
                          = count_total_memories(active, p, g)
                /\ fetch_memory_by_uuid(memories, id)
                      = <<map_row_to_memory_object(memories[i])>>
                /\ gone.ret
                /\ \A j \in 1..Len(gone.rows) : gone.rows[j].id # id

\* C3 witness: a search that returns a record while the table also holds an
\* archived record that the query's filters and threshold would let through.
C3_Witness ==
    /\ last.op = "search"
    /\ last.ret.results # <<>>
    /\ \E i \in 1..Len(memories) :
          /\ memories[i].archived = 1
          /\ MatchesFilter(memories[i], last.args.project, last.args.tags)
          /\ SimilarityTo(last.args.query, memories[i]) >= last.args.threshold

\* C5: every result of SearchMemory has a cosine similarity to the query
\* embedding of at least the threshold; and when the active records are A
\* (embedding [1,0]) and B (embedding [0,1]) of one project, a query of
\* embedding [1,0] with threshold 0.5 returns exactly [A] with score 1.0.
C5_SearchThreshold ==
    last.op = "search" =>
        LET a == last.args
            res == last.ret.results
            active == ActiveRows(memories)
        IN  /\ \A k \in 1..Len(res) :
                  /\ HasRow(res[k].id)
                  /\ SimilarityTo(a.query, RowOf(res[k].id)) >= a.threshold
            /\ \A ia, ib \in 1..Len(active) :
                  ( /\ Len(active) = 2
                    /\ active[ia].embedding[2] = <<1, 0>>
                    /\ active[ib].embedding[2] = <<0, 1>>
                    /\ active[ia].project = active[ib].project
                    /\ a.project \in {NONE, active[ia].project}
                    /\ a.tags = <<>>
                    /\ generate_embedding(a.query) = <<1, 0>>
                    /\ a.threshold = SCALE \div 2 )
                  => /\ IdsOf(res) = <<active[ia].id>>
                     /\ res[1].score = <<SCALE>>
                     /\ res[1].text = active[ia].text

\* C5 witness: the scenario itself: A (p1, tag x) and B (p1, tag y) saved, then
\* a search for A's text in p1 with threshold 0.5 that returned one record.
C5_Witness ==
    /\ last.op = "search"
    /\ last.args.threshold = SCALE \div 2
    /\ last.args.query = TextA
    /\ last.args.project = "p1"
    /\ last.args.tags = <<>>
    /\ Len(last.ret.results) = 1
    /\ {<<memories[i].text, memories[i].project, memories[i].archived>> :
            i \in 1..Len(memories)} = {<<TextA, "p1", 0>>, <<TextB, "p1", 0>>}

\* Whether the integers of a sequence never increase.
NonIncreasing(seq) == \A k \in 1..(Len(seq) - 1) : seq[k] >= seq[k + 1]

\* C6: SearchMemory with threshold 0.0 returns every non-archived record that
\* has an embedding and matches the project/tags filters, in order of
\* non-increasing score (stated for the searches whose limit is no less than
\* the number of such records).
C6_SearchAll ==
    (last.op = "search" /\ last.args.threshold = 0) =>
        LET a == last.args
            res == last.ret.results
            expected == {memories[i].id : i \in
                            {j \in ActiveIdx(memories) :
                                /\ memories[j].embedding # <<>>
                                /\ MatchesFilter(memories[j], a.project, a.tags)}}
        IN  Cardinality(expected) <= a.limit
              => /\ IdSet(res) = expected
                 /\ NonIncreasing([k \in 1..Len(res) |-> res[k].score[1]])

\* C9: the records ListMemories(sort="date") returns are non-archived records
\* matching the project/tags filter, in non-increasing created_at order, with
\* score null, and totalCount is the number of non-archived records matching
\* the filter whatever the page and limit.
C9_ListByDate ==
    (last.op = "list" /\ last.args.sort = "date") =>
        LET a == last.args
            res == last.ret.memories
        IN  /\ \A k \in 1..Len(res) :
                  /\ HasRow(res[k].id)
                  /\ RowOf(res[k].id).archived = 0
                  /\ MatchesFilter(RowOf(res[k].id), a.project, a.tags)
                  /\ res[k].score = <<>>
            /\ NonIncreasing([k \in 1..Len(res) |-> RowOf(res[k].id).created_at])
            /\ last.ret.total
                  = Cardinality({i \in ActiveIdx(memories) :
                                    MatchesFilter(memories[i], a.project, a.tags)})

Min(a, b) == IF a < b THEN a ELSE b

Max(a, b) == IF a > b THEN a ELSE b

\* C10: the records ListMemories(sort="relevance", q=X) returns carry their
\* cosine similarity to X and are in non-increasing order of it; no threshold
\* is applied (a page holds as many records as the filtered records left at
\* its offset, whatever their scores); and on an unchanged table no record of
\* page k+1 scores more than a record of page k.
C10_RelevanceOrder ==
    (last.op = "list" /\ last.args.sort = "relevance" /\ last.args.search_query # <<>>) =>
        LET a == last.args
            res == last.ret.memories
            x == a.search_query[1]
            filtered == Len(SelectSeq(ListWhere(memories, a.project, a.tags),
                                      LAMBDA r : r.embedding # <<>>))
            following == get_all_memories_paginated(memories, a.project, a.tags,
                             a.page + 1, a.limit, a.sort, a.search_query).memories
        IN  /\ \A k \in 1..Len(res) :
                  /\ HasRow(res[k].id)
                  /\ res[k].score = <<Round4(SimilarityTo(x, RowOf(res[k].id)))>>
            /\ NonIncreasing([k \in 1..Len(res) |-> SimilarityTo(x, RowOf(res[k].id))])
            /\ Len(res) = Min(a.limit, Max(0, filtered - (a.page - 1) * a.limit))
            /\ \A k \in 1..Len(res), n \in 1..Len(following) :
                  following[n].score[1] <= res[k].score[1]

\* C10 witness: a second page of a relevance listing whose record has a
\* negative similarity to the query, below that of the record on the first
\* page.
C10_Witness ==
    /\ last.op = "list"
    /\ last.args.sort = "relevance"
    /\ last.args.search_query # <<>>
    /\ last.args.page = 2
    /\ last.args.limit = 1
    /\ Len(last.ret.memories) = 1
    /\ last.ret.memories[1].score[1] < 0
    /\ LET first == get_all_memories_paginated(memories, last.args.project,
                        last.args.tags, 1, 1, "relevance",
                        last.args.search_query).memories
       IN  first[1].score[1] > last.ret.memories[1].score[1]

-----------------------------------------------------------------------------
(* SpecExport: exports and date listings between saves, archives and       *)
(* deletes                                                                 *)

ExportFormats == {"json", "markdown", "xml"}

ExportSave == \E s \in QuerySaves : SaveMemory(s[1], s[2], s[3])

DoExport == \E f \in ExportFormats, p \in QueryProjects : Export(f, p)

\* A date listing of page 1 with a limit no less than the table can hold.
ExportList ==
    \E p \in QueryProjects, l \in {MaxIds, MaxIds + 1} :
        ListMemories(p, <<>>, 1, l, "date", <<>>)

NextExport == Tick \/ ExportSave \/ DoArchive \/ DoDelete \/ DoExport \/ ExportList

SpecExport == Init /\ [][NextExport]_vars

\* The (id, text, project, tags, created_at) tuples of a list of exported or
\* listed records.
Tuples(records) ==
    {[id |-> records[k].id, text |-> records[k].text, project |-> records[k].project,
      tags |-> records[k].tags, created_at |-> records[k].created_at] :
        k \in 1..Len(records)}

\* The ids of the archived rows.
ArchivedIds == {memories[i].id : i \in 1..Len(memories) \ ActiveIdx(memories)}

\* C11: on a table of at most 10000 non-archived records, the set of (id, text,
\* project, tags, created_at) tuples of Export("json", project) equals the set
\* of tuples of ListMemories(project, sort="date", page=1) for every limit no
\* less than the table's size, and no archived record is in either.
C11_ExportRoundTrip ==
    /\ (last.op = "export" /\ last.args.format = "json") =>
          /\ \A l \in {Max(1, Len(memories)), Len(memories) + 1, ExportFetchCap} :
                Tuples(last.ret.memories)
                  = Tuples(get_all_memories_paginated(memories, last.args.project,
                               <<>>, 1, l, "date", <<>>).memories)
          /\ IdSet(last.ret.memories) \cap ArchivedIds = {}
          /\ IdSet(last.ret.memories)
                = {memories[i].id : i \in {j \in ActiveIdx(memories) :
                       MatchesFilter(memories[j], last.args.project, <<>>)}}
    /\ (last.op = "list" /\ last.args.sort = "date" /\ last.args.tags = <<>>
           /\ last.args.page = 1 /\ last.args.limit >= Len(memories)) =>
          /\ Tuples(last.ret.memories)
                = Tuples(dump_memories_to_format(memories, "json", last.args.project).memories)
          /\ IdSet(last.ret.memories) \cap ArchivedIds = {}

\* C11 witness: a json export of project p1 that returns one record while the
\* table also holds an archived record of p1.
C11_Witness ==
    /\ last.op = "export"
    /\ last.args.format = "json"
    /\ last.args.project = "p1"
    /\ Len(last.ret.memories) = 1
    /\ \E i \in 1..Len(memories) : memories[i].archived = 1 /\ memories[i].project = "p1"
    /\ Len(memories) = 2

-----------------------------------------------------------------------------
(* server.py: the mutating routes behind Security(validate_api_key), and   *)
(* the status each route answers with                                      *)

\* Mutant: a request without the header passes the check.
validate_api_key_MissingAllowed(key) ==
    ~(Truthy(api_key) /\ Truthy(key) /\ key # api_key)

\* validate_api_key returns (rather than raising HTTPException 403): key is
\* the X-API-Key header, NONE when the request has none.
validate_api_key(key) ==
    ~(Truthy(api_key) /\ (~Truthy(key) \/ key # api_key))

\* The call a route records when the dependency raised before its body ran.
Forbidden(op, key, request) ==
    Call(op, [key |-> key, request |-> request], "Forbidden", <<>>, FALSE)

handle_save_memory(key, text, project, tags) ==
    IF validate_api_key(key)
      THEN SaveMemory(text, project, tags)
      ELSE /\ last' = Forbidden("save", key, <<text, project, tags>>)
           /\ UNCHANGED <<memories, now, next_uuid, max_text_length, process>>

handle_delete_memory(key, memory_id) ==
    IF validate_api_key(key)
      THEN DeleteMemory(memory_id)
      ELSE /\ last' = Forbidden("delete", key, <<memory_id>>)
           /\ UNCHANGED <<memories, now, next_uuid, max_text_length, process>>

handle_archive_memory(key, memory_id) ==
    IF validate_api_key(key)
      THEN ArchiveMemory(memory_id)
      ELSE /\ last' = Forbidden("archive", key, <<memory_id>>)
           /\ UNCHANGED <<memories, now, next_uuid, max_text_length, process>>

handle_bulk_delete_memories(key, project, before_date) ==
    IF validate_api_key(key)
      THEN BulkDelete(project, before_date)
      ELSE /\ last' = Forbidden("bulk_delete", key, <<project, before_date>>)
           /\ UNCHANGED <<memories, now, next_uuid, max_text_length, process>>

\* The HTTP status of the response to a recorded call: 403 from the
\* dependency, 422 from request validation, 400 for a ValueError of save and
\* bulk delete and 500 for any other exception, 404 when delete or archive
\* returned false, 200 otherwise.
status_code(call) ==
    IF call.error = "Forbidden" THEN 403
    ELSE IF call.error = "RequestValidationError" THEN 422
    ELSE IF call.error = "ValueError"
      THEN IF call.op \in {"save", "bulk_delete"} THEN 400 ELSE 500
    ELSE IF call.error # "none" THEN 500
    ELSE IF call.op = "delete" /\ ~call.ret.deleted THEN 404
    ELSE IF call.op = "archive" /\ ~call.ret.archived THEN 404
    ELSE 200

-----------------------------------------------------------------------------
(* SpecAuth: the mutating routes called with and without keys, for each    *)
(* configuration of api_key                                                *)

ConfiguredKeys == {NONE, "", "k1"}

RequestKeys == {NONE, "", "k1", "k2"}

AuthDates == {NONE, "1970-01-01T00:00:02Z"}

InitAuth ==
    /\ memories = <<>>
    /\ now = 1
    /\ next_uuid = 1
    /\ max_text_length = DefaultMaxTextLength
    /\ last = Call("init", <<>>, "none", <<>>, FALSE)
    /\ api_key \in ConfiguredKeys
    /\ model = 1
    /\ constructed = 1
    /\ callers = [c \in Callers |-> IdleCaller]
    /\ savers = [c \in Callers |-> IdleSaver]

AuthSave == \E k \in RequestKeys, t \in Texts : handle_save_memory(k, t, NONE, <<>>)

AuthDelete == \E k \in RequestKeys, i \in Ids : handle_delete_memory(k, i)

AuthArchive == \E k \in RequestKeys, i \in Ids : handle_archive_memory(k, i)

AuthBulkDelete ==
    \E k \in RequestKeys, d \in AuthDates : handle_bulk_delete_memories(k, NONE, d)

NextAuth == Tick \/ AuthSave \/ AuthDelete \/ AuthArchive \/ AuthBulkDelete

SpecAuth == InitAuth /\ [][NextAuth]_vars

\* C12: when an API key is configured (a non-empty api_key), every request to
\* save, hard-delete, archive or bulk-delete that carries no key or another
\* key is answered 403 and changes nothing in the store; when no API key is
\* configured, each of these requests is processed as the engine processes
\* it, whatever key it carries.
C12_ApiKey ==
    [][\A k \in RequestKeys :
          LET refused == /\ last'.error = "Forbidden"
                         /\ status_code(last') = 403
                         /\ UNCHANGED <<memories, next_uuid>>
              closed == Truthy(api_key) /\ k # api_key
              open == api_key = NONE
          IN  /\ \A t \in Texts :
                    handle_save_memory(k, t, NONE, <<>>)
                    => /\ closed => refused
                       /\ open => SaveMemory(t, NONE, <<>>)
              /\ \A i \in Ids :
                    /\ handle_delete_memory(k, i)
                       => /\ closed => refused
                          /\ open => DeleteMemory(i)
                    /\ handle_archive_memory(k, i)
                       => /\ closed => refused
                          /\ open => ArchiveMemory(i)
              /\ \A d \in AuthDates :
                    handle_bulk_delete_memories(k, NONE, d)
                    => /\ closed => refused
                       /\ open => BulkDelete(NONE, d)]_vars

\* C12 witness: with a key configured, a hard delete of a stored record that
\* carried another key and was refused, the record still in the table.
C12_Witness ==
    /\ Truthy(api_key)
    /\ last.op = "delete"
    /\ last.error = "Forbidden"
    /\ last.args.key = "k2"
    /\ HasRow(last.args.request[1])

-----------------------------------------------------------------------------
(* Further claims checked under Spec *)

\* C13: softDelete(id) returns true exactly when a record with that id exists
\* and is non-archived at the call, and then sets only that record's archived
\* flag; for a missing id or an already archived record it returns false and
\* changes nothing, and the archive route answers 404.
C13_SoftDelete ==
    [][\A id \in Ids :
          ArchiveMemory(id)
          => LET live == \E i \in ActiveIdx(memories) : memories[i].id = id
             IN  /\ last'.ret.archived = live
                 /\ live =>
                       /\ memories' = [j \in 1..Len(memories) |->
                                          IF memories[j].id = id
                                            THEN [memories[j] EXCEPT !.archived = 1]
                                            ELSE memories[j]]
                       /\ status_code(last') = 200
                 /\ ~live =>
                       /\ memories' = memories
                       /\ status_code(last') = 404]_vars

\* C13 witness: an archive of a record that was already archived, answered
\* false, the record still in the table.
C13_Witness ==
    /\ last.op = "archive"
    /\ ~last.ret.archived
    /\ \E i \in 1..Len(memories) :
          memories[i].id = last.args.id /\ memories[i].archived = 1

-----------------------------------------------------------------------------
(* SpecList: listings of both sorts, with and without a query, between     *)
(* saves, archives and deletes                                             *)

\* The empty string, a query that is given but falsy.
TextEmpty == Text("", 0)

\* The listings made: <<sort, search_query>>.
ListSorts ==
    {<<"date", <<>>>>, <<"relevance", <<>>>>, <<"relevance", <<TextEmpty>>>>,
     <<"relevance", <<TextA>>>>}

\* The saves made: <<text, project, tags>>.
ListSaves == {<<TextA, "p1", <<TagX>>>>, <<TextB, NONE, <<TagY>>>>}

ListTags == {<<>>, <<TagX>>, <<TagUpperX>>}

ListPages == {1, 2}

ListLimits == {1, 2}

ListSave == \E s \in ListSaves : SaveMemory(s[1], s[2], s[3])

DoList ==
    \E p \in QueryProjects, g \in ListTags, pg \in ListPages, l \in ListLimits,
       m \in ListSorts :
        ListMemories(p, g, pg, l, m[1], m[2])

NextList == Tick \/ ListSave \/ DoArchive \/ DoDelete \/ DoList

SpecList == Init /\ [][NextList]_vars

\* C14: ListMemories(sort="relevance") with searchQuery absent returns, for
\* every table, filter, page and limit, the same records in the same order with
\* score null and the same totalCount as ListMemories(sort="date") with the
\* same other arguments, and raises no error.
C14_RelevanceFallback ==
    (last.op = "list" /\ last.args.sort = "relevance" /\ last.args.search_query = <<>>) =>
        LET a == last.args
            byDate == get_all_memories_paginated(memories, a.project, a.tags, a.page,
                                                 a.limit, "date", <<>>)
            rows == Slice(OrderByCreatedDesc(ListWhere(memories, a.project, a.tags)),
                          (a.page - 1) * a.limit, a.limit)
        IN  /\ last.error = "none"
            /\ last.ret = byDate
            /\ IdsOf(last.ret.memories) = [k \in 1..Len(rows) |-> rows[k].id]
            /\ \A k \in 1..Len(last.ret.memories) : last.ret.memories[k].score = <<>>
            /\ last.ret.total = Len(ListWhere(memories, a.project, a.tags))

\* C14 witness: a relevance listing without a query that returned two records
\* of different created_at, the newer first.
C14_Witness ==
    /\ last.op = "list"
    /\ last.args.sort = "relevance"
    /\ last.args.search_query = <<>>
    /\ Len(last.ret.memories) = 2
    /\ last.ret.total = 2
    /\ RowOf(last.ret.memories[1].id).created_at
          > RowOf(last.ret.memories[2].id).created_at

\* C15: in ListMemories(sort="relevance", q=X), totalCount equals the number of
\* non-archived records matching the project/tags filter (capped at 10000), is
\* the same for every page and limit, and does not depend on the scores or on
\* whether a record is sliced out by pagination.
C15_RelevanceTotal ==
    (last.op = "list" /\ last.args.sort = "relevance" /\ last.args.search_query # <<>>) =>
        LET a == last.args
            matching == {i \in ActiveIdx(memories) :
                            MatchesFilter(memories[i], a.project, a.tags)}
        IN  /\ last.ret.total = Min(Cardinality(matching), ListFetchCap)
            /\ \A pg \in ListPages, l \in ListLimits :
                  get_all_memories_paginated(memories, a.project, a.tags, pg, l,
                                             a.sort, a.search_query).total
                      = last.ret.total

-----------------------------------------------------------------------------
(* SpecStats: statistics between saves, archives and deletes of records    *)
(* with repeated tags and with more distinct tags than top_tags can hold   *)

\* Eleven distinct one-letter tags.
ManyTags ==
    << <<"a">>, <<"b">>, <<"c">>, <<"d">>, <<"e">>, <<"f">>, <<"g">>, <<"h">>,
       <<"i">>, <<"j">>, <<"k">> >>

\* The saves made: <<text, project, tags>>.
StatsSaves ==
    {<<TextA, "p1", <<TagX, TagY>>>>, <<TextB, "", <<TagY, TagY>>>>,
     <<TextC, NONE, ManyTags>>, <<TextD, "p1", ManyTags \o <<TagY, TagY>>>>}

StatsSave == \E s \in StatsSaves : SaveMemory(s[1], s[2], s[3])

NextStats == Tick \/ StatsSave \/ DoArchive \/ DoDelete \/ Stats

SpecStats == Init /\ [][NextStats]_vars

\* The number of occurrences of a tag over the non-archived records, every
\* occurrence within a record counted.
Occurrences(tag) ==
    Cardinality({o \in UNION {{<<i, k>> : k \in 1..Len(json_loads(memories[i].tags))} :
                                  i \in ActiveIdx(memories)} :
                    json_loads(memories[o[1]].tags)[o[2]] = tag})

\* The number of non-archived records of a project.
ActiveOfProject(p) == Cardinality({i \in ActiveIdx(memories) : memories[i].project = p})

\* C16: Stats counts only non-archived records: total_memories is their
\* number, by_project[p] is the number of them with project p for each project
\* p (a project without any has no entry), and top_tags lists at most 10
\* distinct tags in non-increasing order of their number of occurrences over
\* the non-archived records.
C16_Stats ==
    last.op = "stats" =>
        LET st == last.ret
            projects == {memories[i].project : i \in ActiveIdx(memories)} \ {NONE}
        IN  /\ st.total_memories = Cardinality(ActiveIdx(memories))
            /\ DOMAIN st.by_project = projects
            /\ \A p \in projects : st.by_project[p] = ActiveOfProject(p)
            /\ Len(st.top_tags) <= 10
            /\ \A k \in 1..Len(st.top_tags) : Occurrences(st.top_tags[k]) > 0
            /\ \A j, k \in 1..Len(st.top_tags) : st.top_tags[j] = st.top_tags[k] => j = k
            /\ NonIncreasing([k \in 1..Len(st.top_tags) |-> Occurrences(st.top_tags[k])])

\* C16 witness: statistics taken while an archived record holds tags, with
\* top_tags full (10 tags out of more) and its first tag occurring more often
\* than its last.
C16_Witness ==
    /\ last.op = "stats"
    /\ \E i \in 1..Len(memories) : memories[i].archived = 1 /\ json_loads(memories[i].tags) # <<>>
    /\ Len(last.ret.top_tags) = 10
    /\ Occurrences(last.ret.top_tags[1]) > Occurrences(last.ret.top_tags[10])

-----------------------------------------------------------------------------
(* embeddings.py: the lazy load of the model, one step per read or write   *)
(* of self.model, for threads that call into the vectorizer concurrently   *)

VectorizerMethods == {"initialize_transformer", "generate_embedding", "generate_embeddings_batch"}

\* Where a thread goes when initialize_transformer returns: back into the
\* embedding method that called it, or out.
AfterInitialize(op) == IF op = "initialize_transformer" THEN "done" ELSE "encode"

\* A thread calls one of the vectorizer's methods.
Enter(c, op) ==
    /\ callers[c].pc = "idle"
    /\ callers' = [callers EXCEPT ![c].op = op,
                                  ![c].pc = IF op = "initialize_transformer"
                                              THEN "init_check" ELSE "check"]
    /\ UNCHANGED <<memories, now, next_uuid, max_text_length, last, api_key, savers,
                   model, constructed>>

\* generate_embedding / generate_embeddings_batch: if self.model is None
Check(c) ==
    /\ callers[c].pc = "check"
    /\ callers' = [callers EXCEPT ![c].pc = IF model = 0 THEN "init_check" ELSE "encode"]
    /\ UNCHANGED <<memories, now, next_uuid, max_text_length, last, api_key, savers,
                   model, constructed>>

\* initialize_transformer: if self.model is None
InitCheck(c) ==
    /\ callers[c].pc = "init_check"
    /\ callers' = [callers EXCEPT ![c].pc = IF model = 0 THEN "construct"
                                            ELSE AfterInitialize(callers[c].op)]
    /\ UNCHANGED <<memories, now, next_uuid, max_text_length, last, api_key, savers,
                   model, constructed>>

\* initialize_transformer: SentenceTransformer(self.model_name, ...) runs and
\* returns a new instance.
Construct(c) ==
    /\ callers[c].pc = "construct"
    /\ constructed' = constructed + 1
    /\ callers' = [callers EXCEPT ![c].built = constructed + 1, ![c].pc = "assign"]
    /\ UNCHANGED <<memories, now, next_uuid, max_text_length, last, api_key, savers, model>>

\* initialize_transformer: self.model = <the instance>, then return.
Assign(c) ==
    /\ callers[c].pc = "assign"
    /\ model' = callers[c].built
    /\ callers' = [callers EXCEPT ![c].pc = AfterInitialize(callers[c].op)]
    /\ UNCHANGED <<memories, now, next_uuid, max_text_length, last, api_key, savers, constructed>>

\* generate_embedding / generate_embeddings_batch: self.model.encode(...)
Encode(c) ==
    /\ callers[c].pc = "encode"
    /\ callers' = [callers EXCEPT ![c].used = model, ![c].pc = "done"]
    /\ UNCHANGED <<memories, now, next_uuid, max_text_length, last, api_key, savers,
                   model, constructed>>

-----------------------------------------------------------------------------
(* SpecLoad: concurrent first use of a vectorizer whose model is not loaded *)

\* The process when module embeddings has been imported and nothing has
\* loaded the model yet.
InitLoad ==
    /\ memories = <<>>
    /\ now = 1
    /\ next_uuid = 1
    /\ max_text_length = DefaultMaxTextLength
    /\ last = Call("init", <<>>, "none", <<>>, FALSE)
    /\ api_key = NONE
    /\ model = 0
    /\ constructed = 0
    /\ callers = [c \in Callers |-> IdleCaller]
    /\ savers = [c \in Callers |-> IdleSaver]

DoEnter == \E c \in Callers, op \in VectorizerMethods : Enter(c, op)

DoCheck == \E c \in Callers : Check(c)

DoInitCheck == \E c \in Callers : InitCheck(c)

DoConstruct == \E c \in Callers : Construct(c)

DoAssign == \E c \in Callers : Assign(c)

DoEncode == \E c \in Callers : Encode(c)

NextLoad == DoEnter \/ DoCheck \/ DoInitCheck \/ DoConstruct \/ DoAssign \/ DoEncode

SpecLoad == InitLoad /\ [][NextLoad]_vars

\* C17: for any interleaving of concurrent first-use calls to embed, embedBatch
\* and the explicit initialization, the model constructor runs at most one
\* time and all callers that encode use the same loaded model.
C17_LoadOnce ==
    /\ constructed <= 1
    /\ \A c, d \in Callers :
          (callers[c].used # 0 /\ callers[d].used # 0)
              => callers[c].used = callers[d].used

-----------------------------------------------------------------------------
(* Claims about the hash lookup and the bulk delete, checked under Spec *)

\* C18: for every record created by SaveMemory(text, ...), as long as it is in
\* the table and non-archived, getByHash(SHA256(text)) returns that record,
\* whatever other records have been saved, archived or deleted in between.
C18_HashLookup ==
    \A i \in ActiveIdx(memories) :
        fetch_memory_by_content_hash(memories, generate_text_hash(memories[i].text))
            = <<map_row_to_memory_object(memories[i])>>

\* C18 witness: a save of text T answered "duplicate" with the id of the active
\* record of T, which is not the first row with that text: an archived record
\* of T precedes it.
C18_Witness ==
    /\ last.op = "save"
    /\ last.error = "none"
    /\ last.ret.duplicate
    /\ \E i, j \in 1..Len(memories) :
          /\ i < j
          /\ memories[i].text = last.args.text
          /\ memories[j].text = last.args.text
          /\ memories[i].archived = 1
          /\ memories[j].archived = 0
          /\ memories[j].id = last.ret.id

\* C19: if the only record with text T is archived, SaveMemory(T, ...) returns
\* (newId, false, "created") with newId different from the archived record's
\* id, embeds T, and leaves the archived record unchanged, so that two records
\* with the same text_hash are in the table, one archived and one active.
C19_SaveAfterArchive ==
    [][\A t \in Texts, p \in Projects, g \in SaveTagLists :
          LET same == {i \in 1..Len(memories) : memories[i].text = t}
          IN  (SaveMemory(t, p, g)
                 /\ Cardinality(same) = 1
                 /\ \A i \in same : memories[i].archived = 1)
              => /\ last'.error = "none"
                 /\ last'.ret.reason = "created"
                 /\ ~last'.ret.duplicate
                 /\ \A i \in 1..Len(memories) : memories[i].id # last'.ret.id
                 /\ last'.embedded
                 /\ Len(memories') = Len(memories) + 1
                 /\ SubSeq(memories', 1, Len(memories)) = memories
                 /\ LET new == memories'[Len(memories')]
                    IN  /\ new.id = last'.ret.id
                        /\ new.archived = 0
                        /\ \A i \in same : /\ memories'[i].text_hash = new.text_hash
                                            /\ memories'[i].archived = 1]_vars

\* C19 witness: a save answered "created" while the table holds an archived
\* record of the same text under another id.
C19_Witness ==
    /\ last.op = "save"
    /\ last.error = "none"
    /\ last.ret.reason = "created"
    /\ \E i \in 1..Len(memories) :
          /\ memories[i].text = last.args.text
          /\ memories[i].archived = 1
          /\ memories[i].id # last.ret.id
    /\ \E j \in ActiveIdx(memories) : memories[j].id = last.ret.id

\* C20: bulkHardDelete(project?, beforeTimestamp?) removes exactly the records
\* that satisfy every given filter (project equality and created_at <
\* beforeTimestamp), archived or not, removes every record when both are
\* omitted, returns the number of records removed and leaves every other
\* record unchanged.  (Stated on the bulk deletes whose date, if any, parses:
\* beforeTimestamp is then given, and is omitted when no date is passed on.)
C20_BulkDeleteFilters ==
    [][\A p \in Projects, d \in BulkDates :
          LET before_timestamp == IF Truthy(d) THEN ParseIso(d) ELSE <<>>
              matches(r) ==
                  /\ p # NONE => r.project = p
                  /\ before_timestamp # <<>> => r.created_at < before_timestamp[1]
              kept == SelectSeq(memories, LAMBDA r : ~matches(r))
          IN  (BulkDelete(p, d) /\ ~(Truthy(d) /\ ParseIso(d) = <<>>))
              => /\ memories' = kept
                 /\ last'.ret = [deleted_count |-> Len(memories) - Len(kept)]]_vars

-----------------------------------------------------------------------------
(* SpecDates: searches and bulk deletes with dates that parse and dates    *)
(* that do not, between saves, archives and deletes                        *)

DateStrings ==
    {NONE, "", "not-a-date", "1970-01-01T00:00:00Z", "1970-01-01T00:00:01Z",
     "1970-01-01T00:00:02Z"}

DatesSave == \E t \in Texts : SaveMemory(t, NONE, <<>>)

DatesSearch ==
    \E after \in DateStrings, before \in DateStrings :
        SearchMemory(TextA, NONE, <<>>, default_search_limit, 0, after, before)

DatesBulkDelete == \E d \in DateStrings : BulkDelete(NONE, d)

NextDates == Tick \/ DatesSave \/ DoArchive \/ DoDelete \/ DatesSearch \/ DatesBulkDelete

SpecDates == Init /\ [][NextDates]_vars

\* Whether a date argument is given and cannot be parsed as ISO-8601.
Unparseable(d) == d # NONE /\ ParseIso(d) = <<>>

\* The results whose record was created at an epoch second that satisfies keep.
CreatedWhere(results, keep(_)) ==
    SelectSeq(results, LAMBDA m : HasRow(m.id) /\ keep(RowOf(m.id).created_at))

\* What SearchMemory says about its dates: an unparseable afterDate or
\* beforeDate is ignored (the call returns what it returns with that date
\* omitted), a parseable afterDate keeps exactly the records with created_at
\* >= its epoch second and a parseable beforeDate those with created_at <= it.
SearchDatesHold ==
    last.op = "search" =>
        LET a == last.args
            without(after, before) ==
                find_relevant_memories(memories, a.query, a.project, a.tags, a.limit,
                                       a.threshold, after, before)
        IN  /\ last.error = "none"
            /\ Unparseable(a.after_date)
                  => last.ret.results = without(NONE, a.before_date)
            /\ Unparseable(a.before_date)
                  => last.ret.results = without(a.after_date, NONE)
            /\ (a.after_date # NONE /\ ~Unparseable(a.after_date))
                  => last.ret.results
                        = CreatedWhere(without(NONE, a.before_date),
                                       LAMBDA c : c >= ParseIso(a.after_date)[1])
            /\ (a.before_date # NONE /\ ~Unparseable(a.before_date))
                  => last.ret.results
                        = CreatedWhere(without(a.after_date, NONE),
                                       LAMBDA c : c <= ParseIso(a.before_date)[1])

\* C21: in SearchMemory an afterDate or beforeDate that cannot be parsed is
\* silently ignored, and a parseable one bounds created_at inclusively;
\* BulkDelete, unlike this, fails on an unparseable date.
C21_SearchDates ==
    /\ SearchDatesHold
    /\ (last.op = "bulk_delete" /\ Unparseable(last.args.before_date))
          => last.error = "ValueError"

-----------------------------------------------------------------------------
(* SpecRank: searches with limits below the number of qualifying records,  *)
(* over records whose scores tie                                           *)

\* The texts saved: to the query B (embedding [0,1]) A and C both score 0 and
\* D scores 0.8; to the query A they score 1, -1 and 0.6.
RankTexts == {TextA, TextC, TextD}

RankQueries == {TextA, TextB}

RankLimits == {1, 2}

RankSave == \E t \in RankTexts : SaveMemory(t, NONE, <<>>)

RankSearch ==
    \E q \in RankQueries, l \in RankLimits, t \in Thresholds :
        SearchMemory(q, NONE, <<>>, l, t, NONE, NONE)

NextRank == Tick \/ RankSave \/ DoArchive \/ DoDelete \/ RankSearch

SpecRank == Init /\ [][NextRank]_vars

\* The rows that qualify for the last search: non-archived, with an
\* embedding, matching the project/tags filter and scoring no less than the
\* threshold.
Qualifying ==
    {i \in ActiveIdx(memories) :
        /\ memories[i].embedding # <<>>
        /\ MatchesFilter(memories[i], last.args.project, last.args.tags)
        /\ SimilarityTo(last.args.query, memories[i]) >= last.args.threshold}

\* C22: SearchMemory returns at most limit results, the first limit entries of
\* the score-descending stable ordering of the qualifying records: as many as
\* the limit allows, each a qualifying record, in non-increasing score order;
\* no omitted qualifying record scores more than a returned one; and of two
\* records with equal scores and different created_at the later one comes
\* first (and is the one returned when only one is).
C22_SearchLimit ==
    (last.op = "search" /\ last.args.after_date = NONE /\ last.args.before_date = NONE) =>
        LET res == last.ret.results
            q == last.args.query
            sim(id) == SimilarityTo(q, RowOf(id))
            created(id) == RowOf(id).created_at
            omitted == {memories[i].id : i \in Qualifying} \ IdSet(res)
        IN  /\ Len(res) = Min(last.args.limit, Cardinality(Qualifying))
            /\ IdSet(res) \subseteq {memories[i].id : i \in Qualifying}
            /\ Cardinality(IdSet(res)) = Len(res)
            /\ \A j, k \in 1..Len(res) :
                  j < k => /\ sim(res[j].id) >= sim(res[k].id)
                           /\ sim(res[j].id) = sim(res[k].id)
                                 => created(res[j].id) >= created(res[k].id)
            /\ \A o \in omitted, k \in 1..Len(res) :
                  /\ sim(o) <= sim(res[k].id)
                  /\ sim(o) = sim(res[k].id) => created(o) <= created(res[k].id)

\* C22 witness: a search with limit 1 for which two records of different
\* created_at qualify with equal scores; it returned the later one.
C22_Witness ==
    /\ last.op = "search"
    /\ last.args.limit = 1
    /\ Len(last.ret.results) = 1
    /\ \E i, j \in Qualifying :
          /\ SimilarityTo(last.args.query, memories[i])
                = SimilarityTo(last.args.query, memories[j])
          /\ memories[i].created_at < memories[j].created_at
          /\ last.ret.results[1].id = memories[j].id

-----------------------------------------------------------------------------
(* The tag filter of list/count against the tag filter of search, on the   *)
(* stores of SpecQuery                                                     *)

\* The tag lists requested.
TagFilters == {<<TagX>>, <<TagY>>, <<TagUpperX>>, <<TagX, TagY>>, <<TagY, TagX>>}

\* The ids of the non-archived records whose tag collection holds at least
\* one of the requested tags as an exact element.
ExactTagIds(tags) ==
    {memories[i].id : i \in {j \in ActiveIdx(memories) :
        \E k \in 1..Len(tags) : tags[k] \in Range(json_loads(memories[j].tags))}}

\* C23: for every store and every requested tag list, the tag filter of
\* persistence list/count selects exactly the non-archived records whose tag
\* collection contains at least one requested tag as an exact element, the
\* same set of records that the tag filter of SearchMemory selects.
C23_TagFilter ==
    \A g \in TagFilters :
        /\ IdSet(retrieve_paginated_memories(memories, NONE, g, ListFetchCap, 0))
              = ExactTagIds(g)
        /\ count_total_memories(memories, NONE, g) = Cardinality(ExactTagIds(g))
        /\ IdSet(SearchCandidates(memories, NONE, g, NONE, NONE)) = ExactTagIds(g)

\* The part of C23 that holds: SearchMemory's filter is exact membership, and
\* list/count select at least the records it selects.
TagFilterContains ==
    \A g \in TagFilters :
        /\ IdSet(SearchCandidates(memories, NONE, g, NONE, NONE)) = ExactTagIds(g)
        /\ ExactTagIds(g) \subseteq
              IdSet(retrieve_paginated_memories(memories, NONE, g, ListFetchCap, 0))

-----------------------------------------------------------------------------
(* Immutability of the stored records, under Spec                          *)

\* Every record has updated_at = created_at and text_hash = SHA256(text).
RecordsWellFormed ==
    \A i \in 1..Len(memories) :
        /\ memories[i].updated_at = memories[i].created_at
        /\ memories[i].text_hash = generate_text_hash(memories[i].text)

\* A step changes no field of a record that stays, but archived from 0 to 1.
RecordsKept ==
    \A i \in 1..Len(memories), j \in 1..Len(memories') :
        memories'[j].id = memories[i].id =>
            /\ [memories'[j] EXCEPT !.archived = 0] = [memories[i] EXCEPT !.archived = 0]
            /\ memories'[j].archived >= memories[i].archived

\* C24: across any sequence of operations a record that stays in the store
\* never changes its id, text, text_hash, embedding, project, tags, created_at
\* or updated_at; updated_at equals created_at and text_hash equals
\* SHA256(text) for every record; and the archived flag only ever goes from
\* false to true, never back.
C24_Immutable == [](RecordsWellFormed) /\ [][RecordsKept]_vars

\* C24 witness: a bulk delete removed one record and left an archived one,
\* saved earlier than the present second, in the store.
C24_Witness ==
    /\ last.op = "bulk_delete"
    /\ last.error = "none"
    /\ last.ret.deleted_count = 1
    /\ Len(memories) = 1
    /\ memories[1].archived = 1
    /\ memories[1].created_at < now

-----------------------------------------------------------------------------
(* SpecRace: add_new_memory run by several threads over one store, each    *)
(* persistence call atomic, the calls of different threads interleaved     *)

\* add_new_memory, entry: the input is validated and its text hashed.
SaveBegin(c, text) ==
    /\ savers[c].pc = "idle"
    /\ StoreMemoryInputValid(text)
    /\ text.len <= max_text_length
    /\ savers' = [savers EXCEPT ![c] =
                     [IdleSaver EXCEPT !.pc = "lookup",
                                       !.request = [text |-> text, project |-> NONE,
                                                    tags |-> <<>>]]]
    /\ UNCHANGED <<memories, now, next_uuid, max_text_length, last, api_key, model,
                   constructed, callers>>

\* existing_record = self.db.fetch_memory_by_content_hash(content_hash); a
\* record found is returned as a duplicate.
SaveLookup(c) ==
    /\ savers[c].pc = "lookup"
    /\ LET existing_record ==
              fetch_memory_by_content_hash(memories,
                                           generate_text_hash(savers[c].request.text))
       IN  savers' = [savers EXCEPT
                        ![c].existing = existing_record,
                        ![c].pc = IF existing_record # <<>> THEN "done" ELSE "build",
                        ![c].ret = IF existing_record # <<>>
                                     THEN [id |-> existing_record[1].id,
                                           duplicate |-> TRUE, reason |-> "duplicate"]
                                     ELSE <<>>]
    /\ UNCHANGED <<memories, now, next_uuid, max_text_length, last, api_key, model,
                   constructed, callers>>

\* The text is embedded, a uuid4 and the clock are read and the MemoryRecord
\* is built.
SaveBuild(c) ==
    /\ savers[c].pc = "build"
    /\ next_uuid <= MaxIds
    /\ LET request == savers[c].request
       IN  savers' = [savers EXCEPT
                        ![c].pc = "persist",
                        ![c].dto = [id |-> next_uuid, text |-> request.text,
                                    text_hash |-> generate_text_hash(request.text),
                                    embedding |-> generate_embedding(request.text),
                                    project |-> request.project, tags |-> request.tags,
                                    created_at |-> now, updated_at |-> now]]
    /\ next_uuid' = next_uuid + 1
    /\ UNCHANGED <<memories, now, max_text_length, last, api_key, model, constructed,
                   callers>>

\* self.db.persist_memory_record(memory_dto); return memory_id, False, "created"
SavePersist(c) ==
    /\ savers[c].pc = "persist"
    /\ memories' = persist_memory_record(memories, savers[c].dto)
    /\ savers' = [savers EXCEPT
                     ![c].pc = "done",
                     ![c].ret = [id |-> savers[c].dto.id, duplicate |-> FALSE,
                                 reason |-> "created"]]
    /\ UNCHANGED <<now, next_uuid, max_text_length, last, api_key, model, constructed,
                   callers>>

\* The call returns to handle_save_memory, which answers with what it got.
SaveReturn(c) ==
    /\ savers[c].pc = "done"
    /\ last' = Call("save", savers[c].request, "none", savers[c].ret,
                    ~savers[c].ret.duplicate)
    /\ savers' = [savers EXCEPT ![c] = IdleSaver]
    /\ UNCHANGED <<memories, now, next_uuid, max_text_length, api_key, model,
                   constructed, callers>>

RaceBegin == \E c \in Callers, t \in Texts : SaveBegin(c, t)

RaceLookup == \E c \in Callers : SaveLookup(c)

RaceBuild == \E c \in Callers : SaveBuild(c)

RacePersist == \E c \in Callers : SavePersist(c)

RaceReturn == \E c \in Callers : SaveReturn(c)

NextRace == Tick \/ RaceBegin \/ RaceLookup \/ RaceBuild \/ RacePersist \/ RaceReturn

SpecRace == Init /\ [][NextRace]_vars

\* C25: when two SaveMemory calls with the same text run concurrently and
\* their persistence calls interleave, each atomic on its own, the store never
\* holds two non-archived records with the same text_hash, and of the two
\* calls exactly one reports "created" and the other "duplicate" with the same
\* id.
C25_ConcurrentSave ==
    /\ \A i, j \in ActiveIdx(memories) :
          i # j => memories[i].text_hash # memories[j].text_hash
    /\ \A c, d \in Callers :
          (/\ c # d
           /\ savers[c].pc = "done"
           /\ savers[d].pc = "done"
           /\ savers[c].request.text = savers[d].request.text)
          => /\ savers[c].ret.duplicate # savers[d].ret.duplicate
             /\ savers[c].ret.id = savers[d].ret.id

\* What holds of the interleaved calls: a call that reports a duplicate
\* reports the id of a stored record with the hash of its text.
LookupAnswered ==
    \A c \in Callers :
        (savers[c].pc = "done" /\ savers[c].ret.duplicate)
        => \E i \in 1..Len(memories) :
              /\ memories[i].id = savers[c].ret.id
              /\ memories[i].text_hash = generate_text_hash(savers[c].request.text)

-----------------------------------------------------------------------------
(* SpecFail: saves during which the vectorizer raises                      *)

\* The classes of exception model.encode may raise, as handle_save_memory
\* tells them apart: ValueError (and its subclasses, UnicodeEncodeError among
\* them) and any other Exception.
VectorizerErrors == {"RuntimeError", "ValueError"}

\* add_new_memory on a valid text that is no duplicate, when
\* vectorizer.generate_embedding raises exc: nothing after the call runs.
SaveMemoryEmbeddingFails(text, project, tags, exc) ==
    /\ StoreMemoryInputValid(text)
    /\ text.len <= max_text_length
    /\ fetch_memory_by_content_hash(memories, generate_text_hash(text)) = <<>>
    /\ last' = Call("save", [text |-> text, project |-> project, tags |-> tags],
                    exc, <<>>, TRUE)
    /\ UNCHANGED <<memories, now, next_uuid, max_text_length, process>>

FailSave == \E t \in Texts : SaveMemory(t, NONE, <<>>)

FailEmbed == \E t \in Texts, e \in VectorizerErrors : SaveMemoryEmbeddingFails(t, NONE, <<>>, e)

NextFail == Tick \/ FailSave \/ FailEmbed \/ DoArchive \/ DoDelete

SpecFail == Init /\ [][NextFail]_vars

\* The store after a save whose embedding failed: the error reaches the
\* caller, no record is persisted, no uuid is used and the text still has no
\* non-archived record, so a later save of it is not a duplicate.
FailureLeavesStore(text) ==
    /\ last'.error # "none"
    /\ last'.ret = <<>>
    /\ memories' = memories
    /\ next_uuid' = next_uuid
    /\ fetch_memory_by_content_hash(memories', generate_text_hash(text)) = <<>>

\* C26: if the vectorizer fails while SaveMemory embeds a new (non-duplicate)
\* text, the error propagates to the caller, surfaced as a generic 500 by the
\* server, no record is persisted and the store is identical to its state
\* before the call, so a later SaveMemory of the same text is not reported as
\* a duplicate.
C26_VectorizerFailure ==
    [][\A t \in Texts, e \in VectorizerErrors :
          SaveMemoryEmbeddingFails(t, NONE, <<>>, e)
          => /\ FailureLeavesStore(t)
             /\ status_code(last') = 500]_vars

\* What holds of a failed embedding: the store is left as it was whatever was
\* raised, and the answer is 500 unless a ValueError was raised.
VectorizerFailureKeepsStore ==
    [][\A t \in Texts, e \in VectorizerErrors :
          SaveMemoryEmbeddingFails(t, NONE, <<>>, e)
          => /\ FailureLeavesStore(t)
             /\ e # "ValueError" => status_code(last') = 500]_vars

\* A save that is answered "created" after a save of the same text failed in
\* the vectorizer.
SavedAfterFailure ==
    [][\A t \in Texts :
          (/\ last.op = "save"
           /\ last.error \in VectorizerErrors
           /\ last.args.text = t
           /\ t.len <= max_text_length
           /\ SaveMemory(t, NONE, <<>>))
          => /\ last'.error = "none"
             /\ last'.ret.reason = "created"]_vars

=============================================================================
